---- MODULE Spec2Model ----
(***************************************************************************)
(* Model of scvi/models/distributions.py: the two negative-binomial        *)
(* parameterization converters, the NB distribution and the ZINB           *)
(* distribution (construction, sample, log_prob, the lazy zi_probs).       *)
(*                                                                         *)
(* Numbers.  A scalar is an extended rational <<n, d>> in lowest terms     *)
(* with d >= 0: d > 0 is the finite value n/d, <<1,0>> is +inf, <<-1,0>>   *)
(* is -inf and <<0,0>> is NaN (the IEEE results of x/0 and 0/0).           *)
(* Arithmetic on them is exact; only an explicit dtype conversion rounds.  *)
(*                                                                         *)
(* Tensors.  A tensor is [dtype, sc, v]: v is the sequence of elements of  *)
(* a one-dimensional tensor.  sc = "lin" holds the numbers themselves;     *)
(* sc = "log" holds logarithms, each kept by its argument (the element q   *)
(* of a "log" tensor is the number log(q), so q = 0 is -inf and q = +inf   *)
(* is +inf).  log() and exp() move between the two scales.                 *)
(***************************************************************************)
EXTENDS Integers, Sequences, FiniteSets, TLC

VARIABLES
    libValidate,  \* torch's default validate_args of Gamma/Poisson built without it
    obj,          \* the distribution instance (self), or NoObj
    last,         \* the last call: its name, arguments and outcome
    ziComputed,   \* how many times logits_to_probs(zi_logits) has run
    ziInverted,   \* how many times probs_to_logits(zi_probs) has run
    conv          \* workspace of the converter round trip

vars == <<libValidate, obj, last, ziComputed, ziInverted, conv>>

----------------------------------------------------------------------------
(* Bounds of the model *)

MaxLen == 2         \* longest parameter tensor
MaxSampleDim == 2   \* largest leading dimension of a sample_shape

----------------------------------------------------------------------------
(* Extended rationals *)

Abs(n) == IF n < 0 THEN -n ELSE n

Sign(n) == IF n < 0 THEN -1 ELSE IF n = 0 THEN 0 ELSE 1

RECURSIVE GCD(_, _)
GCD(a, b) == IF b = 0 THEN a ELSE GCD(b, a % b)

Norm(n, d) ==
    IF d = 0 THEN <<Sign(n), 0>>
    ELSE LET g == GCD(Abs(n), Abs(d))
         IN  <<(Sign(d) * n) \div g, Abs(d) \div g>>

Q(n, d) == Norm(n, d)

NaN == <<0, 0>>
PInf == <<1, 0>>
NInf == <<-1, 0>>
Zero == <<0, 1>>
One == <<1, 1>>

IsNaN(x) == x = NaN
IsFinite(x) == x[2] # 0

Mul(a, b) == IF IsNaN(a) \/ IsNaN(b) THEN NaN ELSE Norm(a[1] * b[1], a[2] * b[2])

\* 1/x with x = 0 taken as +0: 1/0 = +inf, 1/inf = 0
Recip(a) == Norm(a[2], a[1])

Div(a, b) == Mul(a, Recip(b))

Add(a, b) ==
    IF IsNaN(a) \/ IsNaN(b) THEN NaN
    ELSE IF IsFinite(a) /\ IsFinite(b) THEN Norm(a[1] * b[2] + b[1] * a[2], a[2] * b[2])
    ELSE IF IsFinite(b) THEN a
    ELSE IF IsFinite(a) THEN b
    ELSE IF a = b THEN a ELSE NaN

Neg(a) == <<-a[1], a[2]>>

Sub(a, b) == Add(a, Neg(b))

\* IEEE comparison: false whenever an operand is NaN
Lt(a, b) ==
    IF IsNaN(a) \/ IsNaN(b) THEN FALSE
    ELSE IF IsFinite(a) /\ IsFinite(b) THEN a[1] * b[2] < b[1] * a[2]
    ELSE IF a = b THEN FALSE
    ELSE a = NInf \/ b = PInf

Le(a, b) == ~IsNaN(a) /\ ~IsNaN(b) /\ (a = b \/ Lt(a, b))

IsInteger(x) == IsFinite(x) /\ x[2] = 1

\* nearest multiple of 1/g (ties upward); NaN and the infinities are kept
RoundTo(x, g) ==
    IF ~IsFinite(x) THEN x
    ELSE Norm((2 * x[1] * g + x[2]) \div (2 * x[2]), g)

----------------------------------------------------------------------------
(* Tensors *)

T(dt, s, xs) == [dtype |-> dt, sc |-> s, v |-> xs]

None == [dtype |-> "none", sc |-> "none", v |-> <<>>]

F32(xs) == T("float32", "lin", xs)
F64(xs) == T("float64", "lin", xs)
Log32(xs) == T("float32", "log", xs)

Size(t) == Len(t.v)

Map1(Op(_), t) == [t EXCEPT !.v = [i \in 1..Len(t.v) |-> Op(t.v[i])]]

\* an elementwise binary operation, the shorter operand broadcast (size 1)
Compatible(a, b) == Size(a) = Size(b) \/ Size(a) = 1 \/ Size(b) = 1

At(t, i) == IF Size(t) = 1 THEN t.v[1] ELSE t.v[i]

Map2(Op(_, _), a, b) ==
    LET n == IF Size(a) >= Size(b) THEN Size(a) ELSE Size(b)
    IN  [a EXCEPT !.v = [i \in 1..n |-> Op(At(a, i), At(b, i))]]

All(P(_), t) == \A i \in 1..Len(t.v) : P(t.v[i])

\* torch.Tensor.log / torch.Tensor.exp: log of a negative number is NaN
LogElem(x) == IF Lt(x, Zero) THEN NaN ELSE x
log(t) == [Map1(LogElem, t) EXCEPT !.sc = "log"]
exp(t) == [t EXCEPT !.sc = "lin"]

\* a - b on two tensors of logarithms: log(x) - log(y) = log(x / y), and
\* (+inf) - (+inf) = (-inf) - (-inf) = NaN as Div gives for inf/inf and 0/0
LogSub(a, b) == Map2(Div, a, b)

\* tensor + python float
AddScalar(t, c) == Map1(LAMBDA x : Add(x, c), t)

\* elements a float32 holds are multiples of 1/4 in this model, a float64
\* holds every rational: narrowing rounds, widening is exact
Cast(x, dt) == IF dt = "float32" THEN RoundTo(x, 4) ELSE x

type_as(t, other) ==
    IF t.dtype = other.dtype THEN t
    ELSE [Map1(LAMBDA x : Cast(x, other.dtype), t) EXCEPT !.dtype = other.dtype]

\* torch.finfo(dtype).eps and .tiny, scaled to the model's number range
FinfoEps(dt) == IF dt = "float32" THEN Q(1, 8) ELSE Q(1, 16)
Tiny == Q(1, 4)

Max(S) == CHOOSE x \in S : \A y \in S : y <= x

\* torch.distributions.utils.broadcast_all on a sequence of arguments
Expand(t, n) == IF Size(t) = n THEN t ELSE [t EXCEPT !.v = [i \in 1..n |-> t.v[1]]]

broadcast_all(ts) ==
    IF \E i \in 1..Len(ts) : ts[i] = None
    THEN [exc |-> "ValueError", ts |-> <<>>]
    ELSE LET n == Max({Size(ts[i]) : i \in 1..Len(ts)})
         IN  IF \E i \in 1..Len(ts) : Size(ts[i]) \notin {1, n}
             THEN [exc |-> "RuntimeError", ts |-> <<>>]
             ELSE [exc |-> "none", ts |-> [i \in 1..Len(ts) |-> Expand(ts[i], n)]]

\* torch.clamp: NaN stays NaN
ClampMin(x, lo) == IF Lt(x, lo) THEN lo ELSE x
ClampMax(x, hi) == IF Lt(hi, x) THEN hi ELSE x

\* torch.distributions.utils.probs_to_logits, is_binary=False: log of the clamped probs
clamp_probs(t) ==
    Map1(LAMBDA p : ClampMax(ClampMin(p, FinfoEps(t.dtype)), Sub(One, FinfoEps(t.dtype))), t)

probs_to_logits(t) == log(clamp_probs(t))

\* torch.distributions.utils.logits_to_probs, is_binary=True: sigmoid
Sigmoid(q) ==
    IF IsNaN(q) THEN NaN
    ELSE IF q = PInf THEN One
    ELSE Div(q, Add(One, q))

logits_to_probs_binary(t) == [Map1(Sigmoid, t) EXCEPT !.sc = "lin"]

\* probs_to_logits, is_binary=True: log(p) - log1p(-p) on the clamped probs
probs_to_logits_binary(t) ==
    LET c == clamp_probs(t)
    IN  LogSub(log(c), log(Map1(LAMBDA p : Sub(One, p), c)))

----------------------------------------------------------------------------
(* The converters *)

Fail(e, w) == [exc |-> e, at |-> w, a |-> None, b |-> None]
Pair(x, y) == [exc |-> "none", at |-> "", a |-> x, b |-> y]

\* variant: the eps offset left out of the denominator
from_nb_params2_to_1_no_eps_on_theta(mu, theta, eps) ==
    IF (mu = None) # (theta = None) THEN Fail("AssertionError", "from_nb_params2_to_1")
    ELSE IF mu = None THEN Fail("TypeError", "from_nb_params2_to_1")
    ELSE IF ~Compatible(mu, theta) THEN Fail("RuntimeError", "from_nb_params2_to_1")
    ELSE Pair(theta, LogSub(log(AddScalar(mu, eps)), log(theta)))

\* returns (total_count, logits) with logits = (mu + eps).log() - (theta + eps).log()
\* and total_count = theta
from_nb_params2_to_1(mu, theta, eps) ==
    IF (mu = None) # (theta = None) THEN Fail("AssertionError", "from_nb_params2_to_1")
    ELSE IF mu = None THEN Fail("TypeError", "from_nb_params2_to_1")
    ELSE IF ~Compatible(mu, theta) THEN Fail("RuntimeError", "from_nb_params2_to_1")
    ELSE Pair(theta, LogSub(log(AddScalar(mu, eps)), log(AddScalar(theta, eps))))

\* returns (mu, theta) with theta = total_count and mu = logits.exp() * theta
from_nb_params1_to_2(total_count, logits) ==
    IF ~Compatible(total_count, logits) THEN Fail("RuntimeError", "from_nb_params1_to_2")
    ELSE Pair(Map2(Mul, exp(logits), total_count), total_count)

----------------------------------------------------------------------------
(* torch.distributions.Distribution.__init__: the argument validation *)

Eps8 == Q(1, 100000000)

NoObj == [cls |-> "none", mu |-> None, theta |-> None, zi_logits |-> None,
          zi_probs |-> None, validate_args |-> FALSE, eps |-> Zero]

arg_constraints(cls) ==
    IF cls = "NB"
    THEN << <<"mu", "greater_than_eq_0">>, <<"theta", "greater_than_eq_0">> >>
    ELSE << <<"mu", "greater_than_eq_0">>, <<"theta", "greater_than_eq_0">>,
            <<"zi_probs", "half_open_interval_0_1">>, <<"zi_logits", "real">> >>

lazy_properties(cls) == IF cls = "ZINB" THEN {"zi_logits", "zi_probs"} ELSE {}

\* the attribute is in the instance's __dict__
InDict(self, name) == self[name] # None

Satisfies(c, t) ==
    IF c = "greater_than_eq_0" THEN All(LAMBDA x : Le(Zero, x), t)
    ELSE IF c = "half_open_interval_0_1" THEN All(LAMBDA x : Le(Zero, x) /\ Lt(x, One), t)
    ELSE All(IsFinite, t)

\* a parameter of arg_constraints is checked, except a lazy property that
\* is not yet in the instance's __dict__
ParamRefused(self, param, constraint) ==
    /\ ~(param \in lazy_properties(self.cls) /\ ~InDict(self, param))
    /\ ~Satisfies(constraint, self[param])

AnyRefused(self, ac) == \E i \in 1..Len(ac) : ParamRefused(self, ac[i][1], ac[i][2])

Distribution_init(self) ==
    IF self.validate_args /\ AnyRefused(self, arg_constraints(self.cls))
    THEN "ValueError"
    ELSE "none"

----------------------------------------------------------------------------
(* NB.__init__ and ZINB.__init__ *)

Args(tc, p, l, m, th, zi, va) ==
    [total_count |-> tc, probs |-> p, logits |-> l, mu |-> m, theta |-> th,
     zi_logits |-> zi, validate_args |-> va]

NoArgs == Args(None, None, None, None, None, None, FALSE)

Raised(e, w) == [exc |-> e, at |-> w, self |-> NoObj]
Built(o) == [exc |-> "none", at |-> "", self |-> o]

\* variant: only the case of no parameterization at all is refused
AmbiguousParameterization_neither_only(a) == a.mu = None /\ a.total_count = None

\* the test of line 75
AmbiguousParameterization(a) == (a.mu = None) = (a.total_count = None)

using_param_1(a) == a.total_count # None /\ (a.logits # None \/ a.probs # None)

\* line 84
ChosenLogits(a) == IF a.logits # None THEN a.logits ELSE probs_to_logits(a.probs)

BroadcastResult(b) ==
    IF b.exc # "none" THEN Fail(b.exc, "broadcast_all") ELSE Pair(b.ts[1], b.ts[2])

BroadcastPair(x, y) == BroadcastResult(broadcast_all(<<x, y>>))

\* lines 85-87
Param1ToMuTheta(p) == IF p.exc # "none" THEN p ELSE from_nb_params1_to_2(p.a, p.b)

Param1(total_count, logits) ==
    Param1ToMuTheta(BroadcastPair(type_as(total_count, logits), logits))

\* lines 80-89: the pair (mu, theta)
NB_normalize(a) ==
    IF using_param_1(a) THEN Param1(a.total_count, ChosenLogits(a))
    ELSE BroadcastPair(a.mu, a.theta)

NewSelf(cls, mu, theta, validate_args) ==
    [cls |-> cls, mu |-> mu, theta |-> theta, zi_logits |-> None, zi_probs |-> None,
     validate_args |-> validate_args, eps |-> Eps8]

Checked(self, verdict) ==
    IF verdict # "none" THEN Raised(verdict, "validate_args") ELSE Built(self)

\* lines 90-92
NB_store(cls, validate_args, p) ==
    IF p.exc # "none" THEN Raised(p.exc, p.at)
    ELSE Checked(NewSelf(cls, p.a, p.b, validate_args),
                 Distribution_init(NewSelf(cls, p.a, p.b, validate_args)))

NB_init(cls, a) ==
    IF AmbiguousParameterization(a) THEN Raised("ValueError", "parameterization")
    ELSE NB_store(cls, a.validate_args, NB_normalize(a))

ZINB_store(self, b) ==
    IF b.exc # "none" THEN Raised(b.exc, "broadcast_all")
    ELSE Built([self EXCEPT !.zi_logits = b.ts[1], !.mu = b.ts[2], !.theta = b.ts[3]])

\* lines 160-162
ZINB_broadcast(zi_logits, r) ==
    IF r.exc # "none" THEN r
    ELSE ZINB_store(r.self, broadcast_all(<<zi_logits, r.self.mu, r.self.theta>>))

ZINB_init(a) == ZINB_broadcast(a.zi_logits, NB_init("ZINB", a))

----------------------------------------------------------------------------
(* The lazy properties of ZINB *)

Found(self, x) == [value |-> x, self |-> self, computed |-> FALSE]

StoredLogits(self, x) ==
    [value |-> x, self |-> [self EXCEPT !.zi_logits = x], computed |-> TRUE]

StoredProbs(self, x) ==
    [value |-> x, self |-> [self EXCEPT !.zi_probs = x], computed |-> TRUE]

\* lazy_property.__get__: the value found in the instance's __dict__, or
\* computed and stored there
zi_logits_get(self) ==
    IF InDict(self, "zi_logits") THEN Found(self, self.zi_logits)
    ELSE StoredLogits(self, probs_to_logits_binary(self.zi_probs))

\* variant: a plain property, which stores nothing
zi_probs_get_not_stored(self) ==
    [value |-> logits_to_probs_binary(zi_logits_get(self).value), self |-> self,
     computed |-> TRUE]

zi_probs_get(self) ==
    IF InDict(self, "zi_probs") THEN Found(self, self.zi_probs)
    ELSE StoredProbs(self, logits_to_probs_binary(zi_logits_get(self).value))

----------------------------------------------------------------------------
(* sample *)

RateCap == 100000000

NoRet == [shape |-> <<>>, v |-> <<>>]

Pat(p, k) == p[((k - 1) % Len(p)) + 1]

RECURSIVE Prod(_)
Prod(s) == IF s = <<>> THEN 1 ELSE Head(s) * Prod(Tail(s))

\* the index into a parameter tensor of size n of the k-th element of a
\* sample of shape sample_shape + (n,)
ParamIndex(k, n) == ((k - 1) % n) + 1

NB_gamma(self) ==
    [concentration |-> self.theta, rate |-> Map2(Div, self.theta, self.mu)]

\* torch.distributions.Gamma / Poisson constructed without validate_args:
\* the library default decides whether the arguments are checked
Gamma_args_ok(d) ==
    All(LAMBDA x : Lt(Zero, x), d.concentration) /\ All(LAMBDA x : Lt(Zero, x), d.rate)

Poisson_args_ok(rate) == \A k \in 1..Len(rate) : Le(Zero, rate[k])

\* _standard_gamma(concentration): g is the draw of an element with a
\* positive concentration; at concentration 0 the draw is the smallest
\* positive number, below 0 it is NaN
StandardGamma(c, g) == IF Lt(Zero, c) THEN g ELSE IF c = Zero THEN Tiny ELSE NaN

\* Gamma.sample: _standard_gamma(concentration) / rate, clamped from below
\* to finfo.tiny
Gamma_sample(d, sample_shape, gpat) ==
    [k \in 1..(Prod(sample_shape) * Size(d.concentration)) |->
        ClampMin(Div(StandardGamma(d.concentration.v[ParamIndex(k, Size(d.concentration))],
                                   Pat(gpat, k)),
                     d.rate.v[ParamIndex(k, Size(d.rate))]),
                 Tiny)]

\* torch.clamp(p_means, max=1e8)
ClampRate(p_means) == [k \in 1..Len(p_means) |-> ClampMax(p_means[k], Q(RateCap, 1))]

\* Poisson.sample: a drawn count per element.  For a NaN rate torch.poisson
\* either refuses the rate (RuntimeError) or returns 0, as the build goes
Poisson_sample(rate, cpat) ==
    [k \in 1..Len(rate) |-> IF IsNaN(rate[k]) THEN Zero ELSE Pat(cpat, k)]

HasNaN(xs) == \E k \in 1..Len(xs) : IsNaN(xs[k])

SampleFail(self, e, w) ==
    [exc |-> e, at |-> w, self |-> self, computed |-> FALSE, rate |-> <<>>,
     base |-> <<>>, u |-> <<>>, ret |-> NoRet]

NB_sample_counts(self, sample_shape, l_train, counts) ==
    [exc |-> "none", at |-> "", self |-> self, computed |-> FALSE,
     rate |-> l_train, base |-> counts, u |-> <<>>,
     ret |-> [shape |-> sample_shape \o <<Size(self.mu)>>, v |-> counts]]

\* lines 101-104
NB_sample_poisson(self, sample_shape, l_train, cpat, nanRaises, lib) ==
    IF lib /\ ~Poisson_args_ok(l_train) THEN SampleFail(self, "ValueError", "Poisson")
    ELSE IF nanRaises /\ HasNaN(l_train) THEN SampleFail(self, "RuntimeError", "torch.poisson")
    ELSE NB_sample_counts(self, sample_shape, l_train, Poisson_sample(l_train, cpat))

\* lines 96-100
NB_sample_gamma(self, sample_shape, gamma_d, gpat, cpat, nanRaises, lib) ==
    IF lib /\ ~Gamma_args_ok(gamma_d) THEN SampleFail(self, "ValueError", "Gamma")
    ELSE NB_sample_poisson(self, sample_shape,
                           ClampRate(Gamma_sample(gamma_d, sample_shape, gpat)),
                           cpat, nanRaises, lib)

NB_sample(self, sample_shape, gpat, cpat, nanRaises, lib) ==
    NB_sample_gamma(self, sample_shape, NB_gamma(self), gpat, cpat, nanRaises, lib)

\* variant: strict comparison
IsZero_strict(u, zi_probs) == Lt(u, zi_probs)

\* torch.rand_like(samp) <= self.zi_probs, one element
IsZero(u, zi_probs) == Le(u, zi_probs)

Uniforms(n, upat) == [k \in 1..n |-> Pat(upat, k)]

Mask(u, zi_probs) ==
    [k \in 1..Len(u) |-> IsZero(u[k], zi_probs.v[ParamIndex(k, Size(zi_probs))])]

\* variant: samp shares its storage with self.mu
SetZero_aliasing_mu(self, samp, is_zero) ==
    [self |-> [self EXCEPT !.mu.v = [i \in 1..Len(@) |-> IF is_zero[i] THEN Zero ELSE @[i]]],
     samp |-> [k \in 1..Len(samp) |-> IF is_zero[k] THEN Zero ELSE samp[k]]]

\* samp[is_zero] = 0.0: an in-place write into samp, the tensor NB.sample
\* has just created
SetZero(self, samp, is_zero) ==
    [self |-> self,
     samp |-> [k \in 1..Len(samp) |-> IF is_zero[k] THEN Zero ELSE samp[k]]]

ZINB_sample_result(b, computed, u, w) ==
    [b EXCEPT !.self = w.self, !.computed = computed, !.u = u,
              !.ret = [shape |-> b.ret.shape, v |-> w.samp]]

\* lines 177-179
ZINB_sample_mask(b, zp, u) ==
    ZINB_sample_result(b, zp.computed, u, SetZero(zp.self, b.base, Mask(u, zp.value)))

ZINB_sample_zero(self, b, upat) ==
    IF b.exc # "none" THEN b
    ELSE ZINB_sample_mask(b, zi_probs_get(self), Uniforms(Len(b.base), upat))

ZINB_sample(self, sample_shape, gpat, cpat, upat, nanRaises, lib) ==
    ZINB_sample_zero(self, NB_sample(self, sample_shape, gpat, cpat, nanRaises, lib), upat)

----------------------------------------------------------------------------
(* log_prob *)

\* scvi.models.log_likelihood: the kernels are pure functions of their
\* arguments; a result is kept as the application that produced it (NoLp:
\* no kernel was applied)
NoLp == [fn |-> "none", value |-> None, mu |-> None, theta |-> None, pi |-> None,
         eps |-> Zero]

log_nb_positive(value, mu, theta, eps) ==
    [fn |-> "log_nb_positive", value |-> value, mu |-> mu, theta |-> theta,
     pi |-> None, eps |-> eps]

log_zinb_positive(value, mu, theta, pi, eps) ==
    [fn |-> "log_zinb_positive", value |-> value, mu |-> mu, theta |-> theta,
     pi |-> pi, eps |-> eps]

\* variant: the support taken as the non-negative reals
InSupport_nonnegative_only(value) == All(LAMBDA x : Le(Zero, x), value)

\* constraints.nonnegative_integer.check(value).all()
InSupport(value) == All(LAMBDA x : IsInteger(x) /\ Le(Zero, x), value)

\* Distribution._validate_sample: with the empty batch_shape this class
\* passes to Distribution.__init__, no shape of value is refused
validate_sample(self, value) == IF InSupport(value) THEN "none" ELSE "ValueError"

LogProbFail(e, w) == [exc |-> e, at |-> w, self |-> NoObj, computed |-> FALSE,
                      kernel |-> FALSE, lp |-> NoLp]

LogProbDone(self, computed, lp) ==
    [exc |-> "none", at |-> "", self |-> self, computed |-> computed,
     kernel |-> TRUE, lp |-> lp]

NB_log_prob(self, value) ==
    IF self.validate_args /\ validate_sample(self, value) # "none"
    THEN [LogProbFail("ValueError", "_validate_sample") EXCEPT !.self = self]
    ELSE LogProbDone(self, FALSE, log_nb_positive(value, self.mu, self.theta, self.eps))

ZINB_log_prob_kernel(value, zl) ==
    LogProbDone(zl.self, zl.computed,
                log_zinb_positive(value, zl.self.mu, zl.self.theta, zl.value, Eps8))

ZINB_log_prob(self, value) ==
    IF self.validate_args /\ validate_sample(self, value) # "none"
    THEN [LogProbFail("ValueError", "_validate_sample") EXCEPT !.self = self]
    ELSE ZINB_log_prob_kernel(value, zi_logits_get(self))

----------------------------------------------------------------------------
(* The state: one call at a time on one instance *)

Call(op, exc, at) ==
    [op |-> op, exc |-> exc, at |-> at, args |-> NoArgs, value |-> None,
     sample_shape |-> <<>>, ret |-> NoRet, rate |-> <<>>, base |-> <<>>, u |-> <<>>,
     kernel |-> FALSE, lp |-> NoLp, hit |-> FALSE]

NoConv == [pc |-> "off", mu |-> None, theta |-> None, eps |-> Zero,
           r1 |-> Pair(None, None), r2 |-> Pair(None, None)]

Bump(n, b) == IF b THEN n + 1 ELSE n

Constructed(op, a, r) ==
    /\ obj' = r.self
    /\ last' = [Call(op, r.exc, r.at) EXCEPT !.args = a]
    /\ UNCHANGED <<libValidate, ziComputed, ziInverted, conv>>

NewNBFrom(a) ==
    /\ last.op = "start"
    /\ Constructed("NB.__init__", a, NB_init("NB", a))

NewZINBFrom(a) ==
    /\ last.op = "start"
    /\ Constructed("ZINB.__init__", a, ZINB_init(a))

Sampled(op, sample_shape, r) ==
    /\ obj' = r.self
    /\ ziComputed' = Bump(ziComputed, r.computed)
    /\ last' = [Call(op, r.exc, r.at) EXCEPT
                   !.sample_shape = sample_shape, !.rate = r.rate, !.base = r.base,
                   !.u = r.u, !.ret = r.ret,
                   !.hit = (op = "ZINB.sample" /\ r.exc = "none" /\ ~r.computed)]
    /\ UNCHANGED <<libValidate, ziInverted, conv>>

NBSample(sample_shape, gpat, cpat, nanRaises) ==
    /\ obj.cls = "NB"
    /\ Sampled("NB.sample", sample_shape,
               NB_sample(obj, sample_shape, gpat, cpat, nanRaises, libValidate))

ZINBSample(sample_shape, gpat, cpat, upat, nanRaises) ==
    /\ obj.cls = "ZINB"
    /\ Sampled("ZINB.sample", sample_shape,
               ZINB_sample(obj, sample_shape, gpat, cpat, upat, nanRaises, libValidate))

LogProbed(op, value, r) ==
    /\ obj' = r.self
    /\ ziInverted' = Bump(ziInverted, r.computed)
    /\ last' = [Call(op, r.exc, r.at) EXCEPT
                   !.value = value, !.kernel = r.kernel, !.lp = r.lp]
    /\ UNCHANGED <<libValidate, ziComputed, conv>>

NBLogProb(value) ==
    /\ obj.cls = "NB"
    /\ LogProbed("NB.log_prob", value, NB_log_prob(obj, value))

ZINBLogProb(value) ==
    /\ obj.cls = "ZINB"
    /\ LogProbed("ZINB.log_prob", value, ZINB_log_prob(obj, value))

Read(op, r) ==
    /\ obj' = r.self
    /\ last' = [Call(op, "none", "") EXCEPT
                   !.ret = [shape |-> <<Size(r.value)>>, v |-> r.value.v],
                   !.hit = ~r.computed]

\* a read of the attribute zi_probs
GetZiProbs ==
    /\ obj.cls = "ZINB"
    /\ Read("zi_probs", zi_probs_get(obj))
    /\ ziComputed' = Bump(ziComputed, zi_probs_get(obj).computed)
    /\ UNCHANGED <<libValidate, ziInverted, conv>>

\* a read of the attribute zi_logits
GetZiLogits ==
    /\ obj.cls = "ZINB"
    /\ Read("zi_logits", zi_logits_get(obj))
    /\ ziInverted' = Bump(ziInverted, zi_logits_get(obj).computed)
    /\ UNCHANGED <<libValidate, ziComputed, conv>>

----------------------------------------------------------------------------
(* Specification of the converters: a round trip on drawn inputs *)

RECURSIVE SeqsUpTo(_, _)
SeqsUpTo(S, n) ==
    IF n = 0 THEN {<<>>}
    ELSE LET R == SeqsUpTo(S, n - 1)
         IN  R \cup {Append(s, x) : s \in {r \in R : Len(r) = n - 1}, x \in S}

NonEmptySeqs(S, n) == SeqsUpTo(S, n) \ {<<>>}

ConvValues == {Zero, Q(1, 2), Q(2, 1)}
ConvEps == {Q(1, 4), Q(1, 10), Q(1, 100)}
ConvTensors == {F32(xs) : xs \in NonEmptySeqs(ConvValues, MaxLen)} \cup {None}

InitConv ==
    /\ libValidate = FALSE
    /\ obj = NoObj
    /\ last = Call("off", "none", "")
    /\ ziComputed = 0
    /\ ziInverted = 0
    /\ \E m \in ConvTensors, th \in ConvTensors, e \in ConvEps :
          conv = [NoConv EXCEPT !.pc = "in", !.mu = m, !.theta = th, !.eps = e]

ToFailuresLogits ==
    /\ conv.pc = "in"
    /\ conv' = [conv EXCEPT !.pc = "mid",
                            !.r1 = from_nb_params2_to_1(conv.mu, conv.theta, conv.eps)]
    /\ UNCHANGED <<libValidate, obj, last, ziComputed, ziInverted>>

ToMeanDispersion ==
    /\ conv.pc = "mid"
    /\ conv.r1.exc = "none"
    /\ conv' = [conv EXCEPT !.pc = "out",
                            !.r2 = from_nb_params1_to_2(conv.r1.a, conv.r1.b)]
    /\ UNCHANGED <<libValidate, obj, last, ziComputed, ziInverted>>

NextConv == ToFailuresLogits \/ ToMeanDispersion

SpecConv == InitConv /\ [][NextConv]_vars

----------------------------------------------------------------------------
(* Specification of construction: every presence pattern of the arguments *)

Cycle(xs, n) == [i \in 1..n |-> xs[((i - 1) % Len(xs)) + 1]]

\* the tensors of one argument: a scalar-like tensor per value, and one
\* tensor with differing elements per length 2..MaxLen
TensorsOf(dt, s, V, ramp) ==
    {T(dt, s, <<x>>) : x \in V} \cup {T(dt, s, Cycle(ramp, n)) : n \in 2..MaxLen}

Optional(S) == S \cup {None}

CtorTotalCount ==
    TensorsOf("float32", "lin", {Q(2, 1)}, <<One, Q(2, 1)>>) \cup {F64(<<Q(9, 8)>>)}
CtorProbs == TensorsOf("float32", "lin", {Q(1, 2)}, <<Q(1, 4), One>>)
CtorLogits == TensorsOf("float32", "log", {One, Q(2, 1)}, <<Q(1, 2), Zero>>)
CtorMu == TensorsOf("float32", "lin", {One, Q(-1, 1)}, <<Zero, Q(2, 1)>>)
CtorTheta == TensorsOf("float32", "lin", {One, Q(-1, 1)}, <<Q(2, 1), Zero>>)
CtorZiLogits == TensorsOf("float32", "log", {One, PInf}, <<Q(3, 1), NaN>>)

CtorArgs(ZI) ==
    {Args(tc, p, l, m, th, zi, va) :
        tc \in Optional(CtorTotalCount), p \in Optional(CtorProbs),
        l \in Optional(CtorLogits), m \in Optional(CtorMu),
        th \in Optional(CtorTheta), zi \in ZI, va \in BOOLEAN}

Init ==
    /\ libValidate \in BOOLEAN
    /\ obj = NoObj
    /\ last = Call("start", "none", "")
    /\ ziComputed = 0
    /\ ziInverted = 0
    /\ conv = NoConv

NewNB == last.op = "start" /\ \E a \in CtorArgs({None}) : NewNBFrom(a)

NewZINB == last.op = "start" /\ \E a \in CtorArgs(Optional(CtorZiLogits)) : NewZINBFrom(a)

NextCtor == NewNB \/ NewZINB

SpecCtor == Init /\ [][NextCtor]_vars

----------------------------------------------------------------------------
(* Specification of an instance's life: construction, then any calls *)

OpMu == {F32(<<Q(2, 1)>>), F32(<<Zero, One>>)}
OpTheta == {F32(<<One>>), F32(<<Zero, Q(2, 1)>>)}
OpZiLogits == {Log32(<<One>>), Log32(<<PInf, Q(1, 3)>>)}

OpArgs(ZI) ==
    {Args(None, None, None, m, th, zi, va) :
        m \in Optional(OpMu), th \in OpTheta, zi \in ZI, va \in BOOLEAN}
    \cup {Args(F32(<<Q(2, 1)>>), None, Log32(<<Q(1, 2), Q(2, 1)>>), None, None, zi, va) :
             zi \in ZI, va \in BOOLEAN}

SampleShapes == {<<>>} \cup {<<k>> : k \in 1..MaxSampleDim}

\* the draws of the random generators, one pattern per call, repeated over
\* the elements
GammaDraws == {<<One>>, <<One, Q(200000000, 1)>>}
PoissonDraws == {<<Q(3, 1), One>>, <<Zero, Q(4, 1)>>}
UniformDraws == {<<Q(1, 2)>>, <<Q(3, 4), Q(1, 2)>>}
\* whether torch.poisson refuses a NaN rate; the choice is open only when
\* the instance has such a rate
NaNRateRaises(self) == IF HasNaN(NB_gamma(self).rate.v) THEN BOOLEAN ELSE {FALSE}

Values == {F32(<<Q(2, 1)>>), F32(<<Q(-1, 1)>>), F32(<<Q(1, 2)>>),
           F32(<<One, Q(-1, 1)>>), F32(<<Q(3, 1), Zero>>)}

OpNewNB == \E a \in OpArgs({None}) : NewNBFrom(a)

OpNewZINB == \E a \in OpArgs(OpZiLogits) : NewZINBFrom(a)

DoNBSample ==
    /\ obj.cls = "NB"
    /\ \E ss \in SampleShapes, g \in GammaDraws, c \in PoissonDraws,
          z \in NaNRateRaises(obj) :
           NBSample(ss, g, c, z)

DoZINBSample ==
    /\ obj.cls = "ZINB"
    /\ \E ss \in SampleShapes, g \in GammaDraws, c \in PoissonDraws, u \in UniformDraws,
          z \in NaNRateRaises(obj) :
           ZINBSample(ss, g, c, u, z)

DoNBLogProb == \E x \in Values : NBLogProb(x)

DoZINBLogProb == \E x \in Values : ZINBLogProb(x)

Next ==
    \/ OpNewNB
    \/ OpNewZINB
    \/ DoNBSample
    \/ DoZINBSample
    \/ DoNBLogProb
    \/ DoZINBLogProb
    \/ GetZiProbs
    \/ GetZiLogits

Spec == Init /\ [][Next]_vars

----------------------------------------------------------------------------
(* Claims about the converters *)

AbsQ(x) == IF Lt(x, Zero) THEN Neg(x) ELSE x

Positive(t) == All(LAMBDA x : Lt(Zero, x) /\ IsFinite(x), t)

\* C4: for mu > 0 and theta > 0 the round trip
\* from_nb_params1_to_2(*from_nb_params2_to_1(mu, theta, eps)) returns theta
\* itself and the mean theta * (mu + eps) / (theta + eps), whose distance to
\* mu is at most eps * |theta - mu| / theta, a bound proportional to eps.
C4_RoundTrip ==
    (conv.pc = "out" /\ Positive(conv.mu) /\ Positive(conv.theta)) =>
        /\ conv.r2.exc = "none"
        /\ conv.r2.b = conv.theta
        /\ Size(conv.r2.a) = Max({Size(conv.mu), Size(conv.theta)})
        /\ \A i \in 1..Size(conv.r2.a) :
              LET m == At(conv.mu, i)
                  t == At(conv.theta, i)
                  got == conv.r2.a.v[i]
              IN  /\ got = Div(Mul(t, Add(m, conv.eps)), Add(t, conv.eps))
                  /\ Le(Mul(AbsQ(Sub(got, m)), t), Mul(conv.eps, AbsQ(Sub(t, m))))

\* a round trip on positive, differing mu and theta: the eps perturbation shows
C4_Witness ==
    /\ conv.pc = "out"
    /\ Positive(conv.mu) /\ Positive(conv.theta)
    /\ Size(conv.mu) # Size(conv.theta)
    /\ \E i \in 1..Size(conv.r2.a) : conv.r2.a.v[i] # At(conv.mu, i)

----------------------------------------------------------------------------
(* Claims about construction *)

IsCtor(c) == c.op \in {"NB.__init__", "ZINB.__init__"}

\* C1: a construction given both the mu/theta pair and the
\* total_count/logits pair, or given neither, raises the ValueError of the
\* parameterization test and produces no instance.
C1_BothOrNeitherRaises ==
    LET a == last.args
        both == a.mu # None /\ a.theta # None /\ a.total_count # None /\ a.logits # None
        neither == a.mu = None /\ a.theta = None /\ a.total_count = None /\ a.logits = None
    IN  (IsCtor(last) /\ (both \/ neither)) =>
            /\ last.exc = "ValueError"
            /\ last.at = "parameterization"
            /\ obj = NoObj

C1_WitnessBoth ==
    /\ last.op = "ZINB.__init__"
    /\ last.args.mu # None /\ last.args.theta # None
    /\ last.args.total_count # None /\ last.args.logits # None
    /\ last.args.zi_logits # None
    /\ last.exc = "ValueError"

\* the given tensors are in their domains and broadcast together
Given(a) == {t \in {a.total_count, a.probs, a.logits, a.mu, a.theta} : t # None}

WellFormed(a) ==
    /\ \A t \in Given(a) : All(LAMBDA x : Le(Zero, x) /\ IsFinite(x), t)
    /\ \A t1 \in Given(a), t2 \in Given(a) : Compatible(t1, t2)

ExactlyOneFamily(a) ==
    \/ /\ a.mu # None /\ a.theta # None
       /\ a.total_count = None /\ a.probs = None /\ a.logits = None
    \/ /\ a.total_count # None /\ (a.probs # None \/ a.logits # None)
       /\ a.mu = None /\ a.theta = None

\* C2: NB construction succeeds if and only if exactly one parameterization
\* family is present (mu and theta with none of total_count/probs/logits, or
\* total_count with probs or logits and neither mu nor theta); every other
\* presence pattern fails with an error.
C2_SucceedsIffExactlyOneFamily ==
    (last.op = "NB.__init__" /\ WellFormed(last.args)) =>
        ((last.exc = "none") <=> ExactlyOneFamily(last.args))

\* C3: after a successful construction mu and theta (and zi_logits of a
\* ZINB) have one shape; built from total_count with logits, or with probs
\* turned into logits (log-odds) first, theta is the broadcast total_count
\* (in the dtype of the logits) and mu is exp(logits) * total_count; built
\* from mu and theta, the stored pair is the broadcast inputs.
C3_NormalizedPair ==
    LET a == last.args
        family1 == a.total_count # None /\ (a.logits # None \/ a.probs # None)
        L == IF a.logits # None THEN a.logits ELSE probs_to_logits_binary(a.probs)
        tc == type_as(a.total_count, L)
    IN  (IsCtor(last) /\ last.exc = "none") =>
            /\ Size(obj.mu) = Size(obj.theta)
            /\ obj.cls = "ZINB" => Size(obj.zi_logits) = Size(obj.mu)
            /\ \A i \in 1..Size(obj.mu) :
                  IF family1
                  THEN /\ obj.theta.v[i] = At(tc, i)
                       /\ obj.mu.v[i] = Mul(At(exp(L), i), At(tc, i))
                  ELSE /\ obj.mu.v[i] = At(a.mu, i)
                       /\ obj.theta.v[i] = At(a.theta, i)

----------------------------------------------------------------------------
(* Claims about the calls on an instance *)

IsLogProb(c) == c.op \in {"NB.log_prob", "ZINB.log_prob"}

IsSample(c) == c.op \in {"NB.sample", "ZINB.sample"}

OutOfSupport(value) ==
    \E i \in 1..Size(value) : Lt(value.v[i], Zero) \/ value.v[i][2] # 1

\* C5: log_prob of a value with a negative or non-integer element raises
\* (ValueError) before the kernel is called when validate_args is set, and
\* returns nothing; without validate_args the value goes to the kernel
\* unchecked and nothing is raised.
C5_LogProbValidation ==
    (IsLogProb(last) /\ OutOfSupport(last.value)) =>
        IF obj.validate_args
        THEN last.exc = "ValueError" /\ ~last.kernel /\ last.lp = NoLp
        ELSE last.exc = "none" /\ last.kernel /\ last.lp.value = last.value

\* a validating ZINB refusing a non-negative value that is not an integer
C5_Witness ==
    /\ last.op = "ZINB.log_prob"
    /\ obj.validate_args
    /\ \A i \in 1..Size(last.value) : Le(Zero, last.value.v[i])
    /\ OutOfSupport(last.value)
    /\ last.exc = "ValueError"

InHalfOpenUnit(t) == \A i \in 1..Size(t) : Le(Zero, t.v[i]) /\ Lt(t.v[i], One)

\* C6: the zi_probs of a ZINB constructed with validate_args lies in [0, 1)
\* whenever the instance holds and uses it.
C6_ZiProbsHalfOpen ==
    (obj.cls = "ZINB" /\ obj.validate_args /\ obj.zi_probs # None) =>
        InHalfOpenUnit(obj.zi_probs)

\* C7: ZINB.sample returns, element by element, 0 where the uniform draw is
\* <= zi_probs and the NB draw elsewhere, in the shape of the NB sample.
C7_MaskElementwise ==
    (last.op = "ZINB.sample" /\ last.exc = "none") =>
        /\ last.ret.shape = last.sample_shape \o <<Size(obj.mu)>>
        /\ Len(last.ret.v) = Len(last.base)
        /\ Len(last.u) = Len(last.base)
        /\ \A k \in 1..Len(last.base) :
              last.ret.v[k] =
                  IF Le(last.u[k], obj.zi_probs.v[((k - 1) % Size(obj.zi_probs)) + 1])
                  THEN Zero
                  ELSE last.base[k]

\* one sample with a non-zero draw forced to zero at the boundary
\* u = zi_probs and another non-zero draw kept
C7_Witness ==
    /\ last.op = "ZINB.sample" /\ last.exc = "none"
    /\ \E k \in 1..Len(last.base) :
          /\ last.base[k] # Zero
          /\ last.u[k] = obj.zi_probs.v[((k - 1) % Size(obj.zi_probs)) + 1]
          /\ last.ret.v[k] = Zero
    /\ \E k \in 1..Len(last.base) : last.base[k] # Zero /\ last.ret.v[k] = last.base[k]

\* C8: sample on an instance whose parameters passed validation (mu = 0 and
\* theta = 0 included) returns without error non-negative integers in the
\* shape sample_shape + batch shape, from Poisson rates of at most 1e8.
C8_SampleSupport ==
    (IsSample(last) /\ obj.validate_args) =>
        /\ last.exc = "none"
        /\ last.ret.shape = last.sample_shape \o <<Size(obj.mu)>>
        /\ \A k \in 1..Len(last.ret.v) :
              /\ IsInteger(last.ret.v[k]) /\ Le(Zero, last.ret.v[k])
              /\ ~Lt(Q(RateCap, 1), last.rate[k])

\* C9: the conversion of zi_logits to zi_probs runs at most once: the first
\* read stores its result, later reads return the stored value, and
\* zi_logits is never computed from zi_probs.
C9_ComputedOnce ==
    /\ ziComputed <= 1
    /\ ziInverted = 0
    /\ obj.cls = "ZINB" =>
          /\ (obj.zi_probs # None) <=> (ziComputed = 1)
          /\ obj.zi_probs # None => obj.zi_probs = logits_to_probs_binary(obj.zi_logits)
    /\ (last.op = "zi_probs" /\ last.hit) => last.ret.v = obj.zi_probs.v

\* a sample served from the stored zi_probs
C9_Witness ==
    /\ last.op = "ZINB.sample"
    /\ last.hit
    /\ ziComputed = 1

LogProbOf(self, value) ==
    IF self.cls = "NB" THEN NB_log_prob(self, value).lp ELSE ZINB_log_prob(self, value).lp

\* C10: a call after construction leaves mu, theta and zi_logits as they
\* were; zi_probs changes only by being filled once from zi_logits; a
\* log_prob that raises changes nothing; and the log_prob of the value just
\* scored is the same after the next call.
C10_ParametersUnchanged ==
    [][obj.cls # "none" =>
          /\ obj'.cls = obj.cls
          /\ obj'.mu = obj.mu
          /\ obj'.theta = obj.theta
          /\ obj'.zi_logits = obj.zi_logits
          /\ obj'.validate_args = obj.validate_args
          /\ obj'.zi_probs # obj.zi_probs =>
                /\ obj.zi_probs = None
                /\ obj'.zi_probs = logits_to_probs_binary(obj.zi_logits)
          /\ (IsLogProb(last') /\ last'.exc # "none") => obj' = obj
          /\ (IsLogProb(last) /\ last.kernel) => LogProbOf(obj', last.value) = last.lp
      ]_vars

\* a ZINB.sample whose in-place write zeroed a non-zero draw on an instance
\* with a non-zero mean
C10_Witness ==
    /\ last.op = "ZINB.sample" /\ last.exc = "none"
    /\ \E k \in 1..Len(last.base) : last.base[k] # Zero /\ last.ret.v[k] = Zero
    /\ \A i \in 1..Size(obj.mu) : obj.mu.v[i] # Zero

====
